---- MODULE Spec2Model ----
(***************************************************************************)
(* Model of the MosaicML gateway provider                                  *)
(* (mlflow/gateway/providers/mosaicml.py): the chat-to-prompt folding of   *)
(* _parse_chat_messages_to_prompt and the chat / completions / embeddings  *)
(* operations with their validation, their single outbound call and the    *)
(* mapping of the backend reply.                                           *)
(*                                                                         *)
(* Text is modelled as a sequence of one-character strings, so that        *)
(* str.endswith and the f-string concatenations are computed, not assumed. *)
(* Spec constructs one adapter and runs the invocations on it one after    *)
(* the other; SpecFold applies the folding alone to an input drawn in its  *)
(* initial state; SpecConc runs several invocations on one adapter at the  *)
(* same time, each suspended at its await while the others proceed.        *)
(***************************************************************************)
EXTENDS Integers, Sequences, FiniteSets, TLC

VARIABLES
    fold_messages,  \* argument of _parse_chat_messages_to_prompt
    fold_result,    \* its outcome: pending, a prompt, or an MlflowException
    config,         \* the RouteConfig handed to __init__ (self.config)
    mosaicml_config, \* self.mosaicml_config
    constructed,    \* outcome of __init__: pending, ok, TypeError
    pc,             \* position of the invocation: idle, awaiting, done
    op,             \* operation invoked: chat, completions, embeddings
    request,        \* the payload object the caller handed in
    caller_payload, \* that object as it stands once the operation worked
    sent,           \* arguments of the send_request call of this invocation
    calls,          \* send_request calls issued by this invocation
    result,         \* what the invocation gave its caller
    invocations,    \* invocations started on this adapter
    validated,      \* invocations that got past every validation
    outbound,       \* send_request calls issued by the adapter in total
    repeated,       \* this invocation repeats the previous request
    reply,          \* resp: what the awaited call returned to this invocation
    tasks           \* the invocations in flight at the same time (SpecConc)

fold_vars == <<fold_messages, fold_result>>
instance_vars == <<config, mosaicml_config, constructed>>
adapter_vars == <<instance_vars, pc, op, request, caller_payload, sent, calls, result,
                  invocations, validated, outbound, repeated, reply>>
conc_vars == <<tasks>>
vars == <<fold_vars, adapter_vars, conc_vars>>

----------------------------------------------------------------------------
(* Bounds of the model.                                                    *)

\* longest message sequence folded with the small content alphabet
MaxMsgs == 4
\* longest message sequence folded with the full content alphabet
MaxRichMsgs == 2
\* longest message sequence of a chat request
MaxChatMsgs == 2
\* invocations made on the adapter in one behaviour
MaxInvocations == 2
\* invocations in flight on the adapter at the same time
NumTasks == 2

----------------------------------------------------------------------------
(* Text: literals of the source, spelled character by character.           *)

\* "<s>[INST]"  (src line 58, and the head of the f-string of line 54)
S_INST == <<"<", "s", ">", "[", "I", "N", "S", "T", "]">>
\* " <<SYS>> "  (line 54, between "<s>[INST]" and the content)
SYS_OPEN == <<" ", "<", "<", "S", "Y", "S", ">", ">", " ">>
\* "<</SYS>>"   (lines 54 and 57)
SYS_CLOSE == <<"<", "<", "/", "S", "Y", "S", ">", ">">>
\* "[/INST]"    (lines 56, 61, 72)
INST_CLOSE == <<"[", "/", "I", "N", "S", "T", "]">>
\* "</s>"       (line 66)
S_CLOSE == <<"<", "/", "s", ">">>
SP == <<" ">>

\* a variant that looks for the suffix anywhere in the string
EndsWithAnywhere(s, suffix) ==
    \E i \in 1..(Len(s) - Len(suffix) + 1) : SubSeq(s, i, i + Len(suffix) - 1) = suffix

\* str.endswith
EndsWith(s, suffix) ==
    /\ Len(s) >= Len(suffix)
    /\ SubSeq(s, Len(s) - Len(suffix) + 1, Len(s)) = suffix

\* message contents used as inputs
C_HI == <<"h", "i">>
C_BE_NICE == <<"b", "e", " ", "n", "i", "c", "e">>
C_EMPTY == <<>>

Roles == {"system", "user", "assistant"}
\* chat.RequestMessage.role is a plain string: other values reach the parser
AnyRoles == Roles \cup {"tool"}

SmallContents == {C_HI, INST_CLOSE}
RichContents == {C_EMPTY, C_HI, C_BE_NICE, INST_CLOSE, SYS_CLOSE, S_CLOSE}

Message(r, c) == [role |-> r, content |-> c]

SeqsUpTo(S, n) == UNION {[1..k -> S] : k \in 0..n}

SmallMessages == {Message(r, c) : r \in AnyRoles, c \in SmallContents}
RichMessages == {Message(r, c) : r \in AnyRoles, c \in RichContents}

FoldInputs == SeqsUpTo(SmallMessages, MaxMsgs) \cup SeqsUpTo(RichMessages, MaxRichMsgs)

----------------------------------------------------------------------------
(* _parse_chat_messages_to_prompt                                          *)

E_CONSECUTIVE == "Consecutive messages cannot have the same 'role'."
E_ASSISTANT == "Messages with role 'assistant' must be preceded by a message with role 'user'."
E_END_USER == "Messages must end with 'user' role for final prompt."
E_INVALID_ROLE(role) ==
    "Invalid role " \o role \o " inputted. Must be one of 'system', 'user', or 'assistant'."

\* MlflowException.invalid_parameter_value(message)
MlflowException(message) == [kind |-> "error", message |-> message]
Prompt(p) == [kind |-> "prompt", prompt |-> p]
Pending == [kind |-> "pending"]

\* a variant that compares only the first pair of messages
HasConsecutiveRolesFirstPair(messages) ==
    Len(messages) >= 2 /\ messages[1].role = messages[2].role

\* line 45: any(m1.role == m2.role for m1, m2 in zip(messages, messages[1:]))
HasConsecutiveRoles(messages) ==
    \E i \in 1..(Len(messages) - 1) : messages[i].role = messages[i + 1].role

\* a variant that leaves the system block without its closing marker
SystemBlockUnclosed(content) == S_INST \o SYS_OPEN \o content

\* line 54
SystemBlock(content) == S_INST \o SYS_OPEN \o content \o SP \o SYS_CLOSE

\* a variant that opens every user turn with "<s>[INST]"
UserBlockAlwaysOpened(prompt, content) ==
    S_INST \o SP \o content \o SP \o INST_CLOSE

\* a variant that leaves the marker out only after a system message that
\* opens the conversation
UserBlockAfterLeadingSystemOnly(prompt, content) ==
    LET inst == SP \o content \o SP \o INST_CLOSE
    IN  IF EndsWith(prompt, SYS_CLOSE) /\ ~EndsWithAnywhere(prompt, INST_CLOSE)
        THEN inst
        ELSE S_INST \o inst

\* lines 56-58
UserBlock(prompt, content) ==
    LET inst == SP \o content \o SP \o INST_CLOSE
    IN  IF ~EndsWith(prompt, SYS_CLOSE) THEN S_INST \o inst ELSE inst

\* a variant that only asks for something in front of the assistant message
AssistantAllowedNonEmpty(prompt) == prompt # <<>>

\* line 61: the guard in front of an assistant message
AssistantAllowed(prompt) == EndsWith(prompt, INST_CLOSE)

\* a variant that leaves the assistant turn without its closing marker
AssistantBlockUnclosed(content) == SP \o content

\* line 66
AssistantBlock(content) == SP \o content \o SP \o S_CLOSE

\* a variant that only asks for a non-empty prompt
EndsOnUserTurnNonEmpty(prompt) == prompt # <<>>

\* a variant that lets the empty prompt through
EndsOnUserTurnOrEmpty(prompt) == prompt = <<>> \/ EndsWith(prompt, INST_CLOSE)

\* line 72: the guard in front of the return
EndsOnUserTurn(prompt) == EndsWith(prompt, INST_CLOSE)

\* lines 50-76: the loop from message i on, with the prompt built so far
RECURSIVE FoldFrom(_, _, _)
FoldFrom(messages, i, prompt) ==
    IF i > Len(messages)
    THEN IF ~EndsOnUserTurn(prompt)
         THEN MlflowException(E_END_USER)
         ELSE Prompt(prompt)
    ELSE LET role == messages[i].role
             content == messages[i].content
         IN  IF role = "system"
             THEN FoldFrom(messages, i + 1, prompt \o SystemBlock(content))
             ELSE IF role = "user"
             THEN FoldFrom(messages, i + 1, prompt \o UserBlock(prompt, content))
             ELSE IF role = "assistant"
             THEN IF ~AssistantAllowed(prompt)
                  THEN MlflowException(E_ASSISTANT)
                  ELSE FoldFrom(messages, i + 1, prompt \o AssistantBlock(content))
             ELSE MlflowException(E_INVALID_ROLE(role))

\* a variant that drops messages of an unknown role instead of rejecting them
parse_chat_messages_skipping_unknown(messages) ==
    IF HasConsecutiveRoles(messages)
    THEN MlflowException(E_CONSECUTIVE)
    ELSE FoldFrom(SelectSeq(messages, LAMBDA m : m.role \in Roles), 1, <<>>)

\* a variant that looks for neighbours with the same role after the loop
parse_chat_messages_loop_first(messages) ==
    LET looped == FoldFrom(messages, 1, <<>>)
    IN  IF looped.kind = "error" /\ looped.message # E_END_USER
        THEN looped
        ELSE IF HasConsecutiveRoles(messages)
        THEN MlflowException(E_CONSECUTIVE)
        ELSE looped

\* lines 33-76
parse_chat_messages_to_prompt(messages) ==
    IF HasConsecutiveRoles(messages)
    THEN MlflowException(E_CONSECUTIVE)
    ELSE FoldFrom(messages, 1, <<>>)

----------------------------------------------------------------------------
(* Values of a payload: a payload is a dict, a function from field names   *)
(* to tagged values. None is a value: a field of the request object that   *)
(* is unset (stop, max_tokens by default, or an extra field passed as      *)
(* null) is in the object with the value None.                             *)

None == [none |-> TRUE]
Num(n) == [num |-> n]
Str(s) == [str |-> s]
List(l) == [list |-> l]
Dict(d) == [dict |-> d]
EmptyDict == <<>>

\* isinstance(v, str)
IsStr(v) == "str" \in DOMAIN v

Restrict(d, K) == [k \in K |-> d[k]]
\* dict.pop(key, None), as far as the dict is concerned
Pop(d, key) == Restrict(d, DOMAIN d \ {key})

C_HELLO == <<"h", "e", "l", "l", "o", "!">>
C_CATS == <<"c", "a", "t", "s">>

\* values of a field the schema does not declare, when the caller adds it:
\* null, or a value
ModelValues == {None, Str(<<"m">>)}
MaxNewTokensValues == {None, Num(10)}
InputsValues == {None, List(<<C_HI>>)}
UserValues == {None, Str(<<"u">>)}

ChatMessages == {Message(r, C_HI) : r \in AnyRoles}
ChatMessageSeqs == SeqsUpTo(ChatMessages, MaxChatMsgs)
Temperatures == {Num(1)}
MaxTokensValues == {None, Num(10)}

\* chat.RequestPayload: messages, the declared parameters (temperature set,
\* max_tokens and stop None by default) and, when the caller adds them, the
\* extra fields "model" and "max_new_tokens"
ChatRequests ==
    { [messages |-> List(ms), temperature |-> t, max_tokens |-> mt, stop |-> None] :
        ms \in ChatMessageSeqs, t \in Temperatures, mt \in MaxTokensValues }
    \cup
    { [messages |-> List(ms), temperature |-> t, max_tokens |-> mt, stop |-> None,
       model |-> m] :
        ms \in ChatMessageSeqs, t \in Temperatures, mt \in MaxTokensValues,
        m \in ModelValues }
    \cup
    { [messages |-> List(ms), temperature |-> t, max_tokens |-> mt, stop |-> None,
       max_new_tokens |-> mnt] :
        ms \in ChatMessageSeqs, t \in Temperatures, mt \in MaxTokensValues,
        mnt \in MaxNewTokensValues }
    \cup
    { [messages |-> List(ms), temperature |-> t, max_tokens |-> mt, stop |-> None,
       model |-> m, max_new_tokens |-> mnt] :
        ms \in ChatMessageSeqs, t \in Temperatures, mt \in MaxTokensValues,
        m \in ModelValues, mnt \in MaxNewTokensValues }

Prompts == {Str(C_HI), List(<<C_HI, C_BE_NICE>>)}

\* completions.RequestPayload
CompletionsRequests ==
    { [prompt |-> pr, temperature |-> t, max_tokens |-> mt, stop |-> None] :
        pr \in Prompts, t \in Temperatures, mt \in MaxTokensValues }
    \cup
    { [prompt |-> pr, temperature |-> t, max_tokens |-> mt, stop |-> None,
       model |-> m] :
        pr \in Prompts, t \in Temperatures, mt \in MaxTokensValues, m \in ModelValues }
    \cup
    { [prompt |-> pr, temperature |-> t, max_tokens |-> mt, stop |-> None,
       max_new_tokens |-> mnt] :
        pr \in Prompts, t \in Temperatures, mt \in MaxTokensValues,
        mnt \in MaxNewTokensValues }
    \cup
    { [prompt |-> pr, temperature |-> t, max_tokens |-> mt, stop |-> None,
       model |-> m, max_new_tokens |-> mnt] :
        pr \in Prompts, t \in Temperatures, mt \in MaxTokensValues,
        m \in ModelValues, mnt \in MaxNewTokensValues }

\* requests for completions that come without a prompt
PromptlessRequests ==
    { [temperature |-> t, max_tokens |-> mt, stop |-> None] :
        t \in Temperatures, mt \in MaxTokensValues }
    \cup
    { [temperature |-> t, max_tokens |-> mt, stop |-> None, model |-> m] :
        t \in Temperatures, mt \in MaxTokensValues, m \in ModelValues }

Texts == {Str(C_CATS), List(<<C_CATS, C_HI>>)}

\* embeddings.RequestPayload: text and, when the caller adds them, the extra
\* fields "model", "inputs" and "user"
EmbeddingsRequests ==
    { [text |-> tx] : tx \in Texts }
    \cup { [text |-> tx, model |-> m] : tx \in Texts, m \in ModelValues }
    \cup { [text |-> tx, inputs |-> inp] : tx \in Texts, inp \in InputsValues }
    \cup { [text |-> tx, model |-> m, inputs |-> inp] :
            tx \in Texts, m \in ModelValues, inp \in InputsValues }
    \cup { [text |-> tx, user |-> u] : tx \in Texts, u \in UserValues }
    \cup { [text |-> tx, model |-> m, user |-> u] :
            tx \in Texts, m \in ModelValues, u \in UserValues }
    \cup { [text |-> tx, inputs |-> inp, user |-> u] :
            tx \in Texts, inp \in InputsValues, u \in UserValues }
    \cup { [text |-> tx, model |-> m, inputs |-> inp, user |-> u] :
            tx \in Texts, m \in ModelValues, inp \in InputsValues, u \in UserValues }

\* requests for embeddings that come without a text
TextlessRequests ==
    { [user |-> u] : u \in UserValues }
    \cup { [user |-> u, model |-> m] : u \in UserValues, m \in ModelValues }

\* {"outputs": [...]} of a text model and of an embedding model
TextReplies == {[outputs |-> <<C_HELLO>>], [outputs |-> <<C_HELLO, C_HI>>]}
EmbeddingReplies == {[outputs |-> << <<1, 2>> >>], [outputs |-> << <<1, 2>>, <<3, 4>> >>]}
\* statuses of a failed backend call
BackendStatuses == {429, 500}

----------------------------------------------------------------------------
(* The adapter's configuration.                                            *)

DefaultApiBase == "https://models.hosted-on.mosaicml.hosting"
\* mosaicml_api_base when no override is configured (None: falsy)
ApiBaseUnset == ""

RouteConfigs ==
    { [name |-> "chat", route_type |-> "llm/v1/chat",
       model |-> [name |-> "llama2-70b-chat",
                  config |-> [mosaicml_api_key |-> "key",
                              mosaicml_api_base |-> ApiBaseUnset]]],
      [name |-> "embeddings", route_type |-> "llm/v1/embeddings",
       model |-> [name |-> "instructor-large",
                  config |-> [mosaicml_api_key |-> "key",
                              mosaicml_api_base |-> "https://example.test"]]] }

HostedRoute == CHOOSE c \in RouteConfigs : c.model.config.mosaicml_api_base = ApiBaseUnset

\* RouteConfigs whose provider config is absent, or is the config of another
\* provider
MismatchedRouteConfigs ==
    { [name |-> "chat", route_type |-> "llm/v1/chat",
       model |-> [name |-> "llama2-70b-chat", config |-> None]],
      [name |-> "chat", route_type |-> "llm/v1/chat",
       model |-> [name |-> "gpt-4", config |-> [openai_api_key |-> "key"]]] }

\* isinstance(c, MosaicMLConfig): the config class is told by its fields
IsMosaicMLConfig(c) == "mosaicml_api_key" \in DOMAIN c

----------------------------------------------------------------------------
(* Helpers the operations call.                                            *)

NoCall == None
NoResult == None
NoReply == None

HTTPException(status, detail) == [kind |-> "http_error", status |-> status, detail |-> detail]
\* d[key] or d.pop(key) of a key the dict does not have
KeyError(key) == [kind |-> "KeyError", key |-> key]

\* the field a request of the operation cannot do without
RequiredField(o) ==
    CASE o = "chat" -> "messages"
      [] o = "completions" -> "prompt"
      [] o = "embeddings" -> "text"

\* validation of the request against the normalized schema, done where the
\* request object is built, before the adapter is entered: the error the
\* caller gets, or None
RequestValidation(o, payload) ==
    IF RequiredField(o) \notin DOMAIN payload
    THEN [kind |-> "request_validation_error",
          detail |-> "field required: " \o RequiredField(o),
          status_class |-> "4xx"]
    ELSE None
Call(body) == [kind |-> "call", body |-> body]

\* a variant that keeps the fields whose value is None
jsonable_encoder_keeping_none(payload) == payload

\* jsonable_encoder(payload, exclude_none=True)
jsonable_encoder(payload) ==
    Restrict(payload, {k \in DOMAIN payload : payload[k] # None})

\* BaseProvider.check_for_model_field: the error it raises, or None
check_for_model_field(payload) ==
    IF "model" \in DOMAIN payload THEN [kind |-> "model_field_error"] ELSE None

\* utils.rename_payload_keys: the value of a normalized name moves to the
\* backend name, every other field is kept
rename_payload_keys(payload, mapping) ==
    LET target(k) == IF k \in DOMAIN mapping THEN mapping[k] ELSE k
        keys == {target(k) : k \in DOMAIN payload}
        origin(k2) ==
            IF \E k \in DOMAIN payload \cap DOMAIN mapping : mapping[k] = k2
            THEN CHOOSE k \in DOMAIN payload \cap DOMAIN mapping : mapping[k] = k2
            ELSE k2
    IN  [k2 \in keys |-> payload[origin(k2)]]

\* a variant that tests the normalized names of the table
DirectlySuppliedNormalized(payload, key_mapping) ==
    {k1 \in DOMAIN key_mapping : k1 \in DOMAIN payload}

\* "for k1, k2 in key_mapping.items(): if k2 in payload": the entries that raise
DirectlySupplied(payload, key_mapping) ==
    {k1 \in DOMAIN key_mapping : key_mapping[k1] \in DOMAIN payload}

\* a variant that names the two fields the other way round
InvalidParameterDetailSwapped(k1, k2) ==
    "Invalid parameter " \o k1 \o ". Use " \o k2 \o " instead."

\* f"Invalid parameter {k2}. Use {k1} instead."
InvalidParameterDetail(k1, k2) ==
    "Invalid parameter " \o k2 \o ". Use " \o k1 \o " instead."

\* a variant that sends the key as a bearer token
SendRequestArgsBearer(model, payload) ==
    [headers |-> [Authorization |-> "Bearer " \o mosaicml_config.mosaicml_api_key],
     base_url |-> IF mosaicml_config.mosaicml_api_base # ApiBaseUnset
                  THEN mosaicml_config.mosaicml_api_base
                  ELSE DefaultApiBase,
     path |-> model \o "/v1/predict",
     payload |-> payload]

\* _request: the arguments handed to send_request
SendRequestArgs(model, payload) ==
    [headers |-> [Authorization |-> mosaicml_config.mosaicml_api_key],
     base_url |-> IF mosaicml_config.mosaicml_api_base # ApiBaseUnset
                  THEN mosaicml_config.mosaicml_api_base
                  ELSE DefaultApiBase,
     path |-> model \o "/v1/predict",
     payload |-> payload]

ResponseMetadata == [model |-> config.model.name, route_type |-> config.route_type]

----------------------------------------------------------------------------
(* chat                                                                    *)

ChatKeyMapping == [max_tokens |-> "max_new_tokens"]

ChatInvalidParameter(k1, k2) == HTTPException(422, InvalidParameterDetail(k1, k2))

\* a variant that leaves the folding's message out of the detail
ChatInvalidStructureBare(e) ==
    HTTPException(422, "An invalid request structure was submitted.")

\* lines 98-101
ChatInvalidStructure(e) ==
    HTTPException(422, "An invalid request structure was submitted. " \o e.message)

\* a variant that leaves the messages among the parameters
ChatPrepareKeepsMessages(payload) ==
    LET messages == payload["messages"].list
        encoded == jsonable_encoder(payload)
        model_error == check_for_model_field(encoded)
        supplied == DirectlySupplied(encoded, ChatKeyMapping)
    IN  IF model_error # None THEN model_error
        ELSE IF supplied # {}
        THEN LET k1 == CHOOSE k \in supplied : TRUE
             IN  ChatInvalidParameter(k1, ChatKeyMapping[k1])
        ELSE LET renamed == rename_payload_keys(encoded, ChatKeyMapping)
                 folded == parse_chat_messages_to_prompt(messages)
             IN  IF folded.kind = "error"
                 THEN ChatInvalidStructure(folded)
                 ELSE Call([inputs |-> List(<<folded.prompt>>),
                            parameters |-> Dict(renamed)])

\* a variant that folds the messages before it looks at the fields
ChatPrepareFoldsFirst(payload) ==
    LET messages == payload["messages"].list
        encoded == Pop(jsonable_encoder(payload), "messages")
        model_error == check_for_model_field(encoded)
        supplied == DirectlySupplied(encoded, ChatKeyMapping)
        folded == parse_chat_messages_to_prompt(messages)
    IN  IF folded.kind = "error" THEN ChatInvalidStructure(folded)
        ELSE IF model_error # None THEN model_error
        ELSE IF supplied # {}
        THEN LET k1 == CHOOSE k \in supplied : TRUE
             IN  ChatInvalidParameter(k1, ChatKeyMapping[k1])
        ELSE Call([inputs |-> List(<<folded.prompt>>),
                   parameters |-> Dict(rename_payload_keys(encoded, ChatKeyMapping))])

\* lines 80-103: up to the await, either an error raised or the body to send
ChatPrepare(payload) ==
    LET messages == payload["messages"].list
        encoded == Pop(jsonable_encoder(payload), "messages")
        model_error == check_for_model_field(encoded)
        supplied == DirectlySupplied(encoded, ChatKeyMapping)
    IN  IF model_error # None THEN model_error
        ELSE IF supplied # {}
        THEN LET k1 == CHOOSE k \in supplied : TRUE
             IN  ChatInvalidParameter(k1, ChatKeyMapping[k1])
        ELSE LET renamed == rename_payload_keys(encoded, ChatKeyMapping)
                 folded == parse_chat_messages_to_prompt(messages)
             IN  IF folded.kind = "error"
                 THEN ChatInvalidStructure(folded)
                 ELSE Call([inputs |-> List(<<folded.prompt>>),
                            parameters |-> Dict(renamed)])

\* a variant that lists the candidates last output first
ChatResponseReversed(resp) ==
    [kind |-> "response",
     candidates |-> [i \in 1..Len(resp.outputs) |->
                        [message |-> [role |-> "assistant",
                                      content |-> resp.outputs[Len(resp.outputs) + 1 - i]],
                         metadata |-> EmptyDict]],
     metadata |-> ResponseMetadata]

\* lines 128-145
ChatResponse(resp) ==
    [kind |-> "response",
     candidates |-> [i \in 1..Len(resp.outputs) |->
                        [message |-> [role |-> "assistant", content |-> resp.outputs[i]],
                         metadata |-> EmptyDict]],
     metadata |-> ResponseMetadata]

----------------------------------------------------------------------------
(* completions                                                             *)

CompletionsKeyMapping == [max_tokens |-> "max_new_tokens"]

\* a variant that answers with the status chat uses
CompletionsInvalidParameterAsChat(k1, k2) ==
    HTTPException(422, InvalidParameterDetail(k1, k2))

CompletionsInvalidParameter(k1, k2) == HTTPException(400, InvalidParameterDetail(k1, k2))

\* a variant that sends a single-string prompt as it is
CompletionsPrepareBareString(payload) ==
    LET encoded == jsonable_encoder(payload)
        model_error == check_for_model_field(encoded)
        supplied == DirectlySupplied(encoded, CompletionsKeyMapping)
    IN  IF model_error # None THEN model_error
        ELSE IF supplied # {}
        THEN LET k1 == CHOOSE k \in supplied : TRUE
             IN  CompletionsInvalidParameter(k1, CompletionsKeyMapping[k1])
        ELSE LET renamed == rename_payload_keys(encoded, CompletionsKeyMapping)
             IN  IF "prompt" \notin DOMAIN renamed
                 THEN KeyError("prompt")
                 ELSE Call([inputs |-> renamed["prompt"],
                            parameters |-> Dict(Pop(renamed, "prompt"))])

\* lines 148-166
CompletionsPrepare(payload) ==
    LET encoded == jsonable_encoder(payload)
        model_error == check_for_model_field(encoded)
        supplied == DirectlySupplied(encoded, CompletionsKeyMapping)
    IN  IF model_error # None THEN model_error
        ELSE IF supplied # {}
        THEN LET k1 == CHOOSE k \in supplied : TRUE
             IN  CompletionsInvalidParameter(k1, CompletionsKeyMapping[k1])
        ELSE LET renamed == rename_payload_keys(encoded, CompletionsKeyMapping)
                 prompt == IF IsStr(renamed["prompt"])
                           THEN List(<<renamed["prompt"].str>>)
                           ELSE renamed["prompt"]
             IN  IF "prompt" \notin DOMAIN renamed
                 THEN KeyError("prompt")
                 ELSE Call([inputs |-> prompt,
                            parameters |-> Dict(Pop(renamed, "prompt"))])

\* lines 191-205
CompletionsResponse(resp) ==
    [kind |-> "response",
     candidates |-> [i \in 1..Len(resp.outputs) |->
                        [text |-> resp.outputs[i], metadata |-> EmptyDict]],
     metadata |-> ResponseMetadata]

----------------------------------------------------------------------------
(* embeddings                                                              *)

EmbeddingsKeyMapping == [text |-> "inputs"]

EmbeddingsInvalidParameter(k1, k2) == HTTPException(400, InvalidParameterDetail(k1, k2))

\* a variant that leaves out the check for a "model" field
EmbeddingsPrepareNoModelCheck(payload) ==
    LET encoded == jsonable_encoder(payload)
        supplied == DirectlySupplied(encoded, EmbeddingsKeyMapping)
    IN  IF supplied # {}
        THEN LET k1 == CHOOSE k \in supplied : TRUE
             IN  EmbeddingsInvalidParameter(k1, EmbeddingsKeyMapping[k1])
        ELSE LET renamed == rename_payload_keys(encoded, EmbeddingsKeyMapping)
             IN  IF "inputs" \notin DOMAIN renamed
                 THEN KeyError("inputs")
                 ELSE Call([k \in DOMAIN renamed |->
                              IF k = "inputs" /\ IsStr(renamed[k])
                              THEN List(<<renamed[k].str>>)
                              ELSE renamed[k]])

\* a variant that sends the body in the shape completions uses
EmbeddingsPrepareWrapped(payload) ==
    LET encoded == jsonable_encoder(payload)
        model_error == check_for_model_field(encoded)
        supplied == DirectlySupplied(encoded, EmbeddingsKeyMapping)
    IN  IF model_error # None THEN model_error
        ELSE IF supplied # {}
        THEN LET k1 == CHOOSE k \in supplied : TRUE
             IN  EmbeddingsInvalidParameter(k1, EmbeddingsKeyMapping[k1])
        ELSE LET renamed == rename_payload_keys(encoded, EmbeddingsKeyMapping)
             IN  IF "inputs" \notin DOMAIN renamed
                 THEN KeyError("inputs")
                 ELSE Call([inputs |-> IF IsStr(renamed["inputs"])
                                       THEN List(<<renamed["inputs"].str>>)
                                       ELSE renamed["inputs"],
                            parameters |-> Dict(Pop(renamed, "inputs"))])

\* a variant that sends the inputs and nothing else
EmbeddingsPrepareInputsOnly(payload) ==
    LET encoded == jsonable_encoder(payload)
        model_error == check_for_model_field(encoded)
        supplied == DirectlySupplied(encoded, EmbeddingsKeyMapping)
    IN  IF model_error # None THEN model_error
        ELSE IF supplied # {}
        THEN LET k1 == CHOOSE k \in supplied : TRUE
             IN  EmbeddingsInvalidParameter(k1, EmbeddingsKeyMapping[k1])
        ELSE LET renamed == rename_payload_keys(encoded, EmbeddingsKeyMapping)
             IN  IF "inputs" \notin DOMAIN renamed
                 THEN KeyError("inputs")
                 ELSE Call([inputs |-> IF IsStr(renamed["inputs"])
                                       THEN List(<<renamed["inputs"].str>>)
                                       ELSE renamed["inputs"]])

\* lines 208-220
EmbeddingsPrepare(payload) ==
    LET encoded == jsonable_encoder(payload)
        model_error == check_for_model_field(encoded)
        supplied == DirectlySupplied(encoded, EmbeddingsKeyMapping)
    IN  IF model_error # None THEN model_error
        ELSE IF supplied # {}
        THEN LET k1 == CHOOSE k \in supplied : TRUE
             IN  EmbeddingsInvalidParameter(k1, EmbeddingsKeyMapping[k1])
        ELSE LET renamed == rename_payload_keys(encoded, EmbeddingsKeyMapping)
             IN  IF "inputs" \notin DOMAIN renamed
                 THEN KeyError("inputs")
                 ELSE Call([k \in DOMAIN renamed |->
                              IF k = "inputs" /\ IsStr(renamed[k])
                              THEN List(<<renamed[k].str>>)
                              ELSE renamed[k]])

\* lines 243-251
EmbeddingsResponse(resp) ==
    [kind |-> "response",
     embeddings |-> resp.outputs,
     metadata |-> ResponseMetadata]

----------------------------------------------------------------------------
(* The adapter: one invocation at a time runs from its entry to the await  *)
(* of _request in one step (that part is synchronous), and ends when the   *)
(* backend answers or fails.                                               *)

\* no invocation made yet
InitInvocations ==
    /\ pc = "idle"
    /\ op = "none"
    /\ request = EmptyDict
    /\ caller_payload = EmptyDict
    /\ sent = NoCall
    /\ calls = 0
    /\ result = NoResult
    /\ invocations = 0
    /\ validated = 0
    /\ outbound = 0
    /\ repeated = FALSE
    /\ reply = NoReply

NoTasks == <<>>

\* an adapter constructed from the RouteConfig c
InitAdapter(c) ==
    /\ config = c
    /\ mosaicml_config = c.model.config
    /\ constructed = "ok"
    /\ InitInvocations

\* a variant of __init__ that takes whatever provider config it is given
ConstructUnchecked ==
    /\ constructed = "pending"
    /\ constructed' = "ok"
    /\ mosaicml_config' = config.model.config
    /\ UNCHANGED <<config, pc, op, request, caller_payload, sent, calls, result,
                   invocations, validated, outbound, repeated, reply, fold_vars,
                   conc_vars>>

\* __init__(self, config: RouteConfig), lines 14-18
Construct ==
    /\ constructed = "pending"
    /\ IF config.model.config = None \/ ~IsMosaicMLConfig(config.model.config)
       THEN /\ constructed' = "TypeError"
            /\ UNCHANGED mosaicml_config
       ELSE /\ constructed' = "ok"
            /\ mosaicml_config' = config.model.config
    /\ UNCHANGED <<config, pc, op, request, caller_payload, sent, calls, result,
                   invocations, validated, outbound, repeated, reply, fold_vars,
                   conc_vars>>

\* a variant in which the encoding hands back the object it was given, so
\* that the operation pops from the caller's object
CallerPayloadWorkedInPlace(o, payload) ==
    LET encoded == jsonable_encoder(payload)
    IN  IF o = "chat" THEN Pop(encoded, "messages") ELSE encoded

\* lines 80-82, 148, 208: the objects of an invocation when its synchronous
\* part is over. "payload = jsonable_encoder(payload, exclude_none=True)"
\* binds the local name to the dict the encoding builds, and
\* payload.pop("messages", None) writes to that dict; the object of the
\* caller is only read (payload.messages).
CallerPayloadAfter(o, payload) ==
    LET encoded == jsonable_encoder(payload)
        objects == [caller |-> payload,
                    local |-> IF o = "chat" THEN Pop(encoded, "messages") ELSE encoded]
    IN  objects.caller

\* a variant that issues the call before it looks at the outcome of validation
InvokeCallFirst(o, payload, outcome) ==
    /\ constructed = "ok"
    /\ pc \in {"idle", "done"}
    /\ invocations < MaxInvocations
    /\ op' = o
    /\ request' = payload
    /\ caller_payload' = CallerPayloadAfter(o, payload)
    /\ invocations' = invocations + 1
    /\ repeated' = (pc = "done" /\ op = o /\ request = payload)
    /\ reply' = NoReply
    /\ calls' = 1
    /\ outbound' = outbound + 1
    /\ IF outcome.kind = "call"
       THEN /\ sent' = SendRequestArgs(config.model.name, outcome.body)
            /\ validated' = validated + 1
            /\ pc' = "awaiting"
            /\ result' = NoResult
       ELSE /\ sent' = SendRequestArgs(config.model.name, EmptyDict)
            /\ pc' = "done"
            /\ result' = outcome
            /\ UNCHANGED validated
    /\ UNCHANGED <<instance_vars, fold_vars, conc_vars>>

\* entry of an operation up to "await self._request(self.config.model.name, ...)"
Invoke(o, payload, outcome) ==
    /\ constructed = "ok"
    /\ pc \in {"idle", "done"}
    /\ invocations < MaxInvocations
    /\ op' = o
    /\ request' = payload
    /\ caller_payload' = CallerPayloadAfter(o, payload)
    /\ invocations' = invocations + 1
    /\ repeated' = (pc = "done" /\ op = o /\ request = payload)
    /\ reply' = NoReply
    /\ IF outcome.kind = "call"
       THEN /\ sent' = SendRequestArgs(config.model.name, outcome.body)
            /\ calls' = 1
            /\ outbound' = outbound + 1
            /\ validated' = validated + 1
            /\ pc' = "awaiting"
            /\ result' = NoResult
       ELSE /\ sent' = NoCall
            /\ calls' = 0
            /\ pc' = "done"
            /\ result' = outcome
            /\ UNCHANGED <<outbound, validated>>
    /\ UNCHANGED <<instance_vars, fold_vars, conc_vars>>

\* a request reaches an operation as a validated request object: one that
\* fails the validation ends there, with the validation's error
Chat(payload) ==
    Invoke("chat", payload,
           IF RequestValidation("chat", payload) # None
           THEN RequestValidation("chat", payload)
           ELSE ChatPrepare(payload))

\* a variant entered with whatever it is handed
CompletionsUnvalidated(payload) ==
    Invoke("completions", payload, CompletionsPrepare(payload))

Completions(payload) ==
    Invoke("completions", payload,
           IF RequestValidation("completions", payload) # None
           THEN RequestValidation("completions", payload)
           ELSE CompletionsPrepare(payload))

Embeddings(payload) ==
    Invoke("embeddings", payload,
           IF RequestValidation("embeddings", payload) # None
           THEN RequestValidation("embeddings", payload)
           ELSE EmbeddingsPrepare(payload))

\* the awaited call returns the backend's JSON: the response is built
BackendReply(resp) ==
    /\ pc = "awaiting"
    /\ resp \in (IF op = "embeddings" THEN EmbeddingReplies ELSE TextReplies)
    /\ result' = CASE op = "chat" -> ChatResponse(resp)
                   [] op = "completions" -> CompletionsResponse(resp)
                   [] op = "embeddings" -> EmbeddingsResponse(resp)
    /\ reply' = resp
    /\ pc' = "done"
    /\ UNCHANGED <<instance_vars, op, request, caller_payload, sent, calls,
                   invocations, validated, outbound, repeated, fold_vars, conc_vars>>

\* a variant that sends the request again when the backend fails
BackendFailRetried(status) ==
    /\ pc = "awaiting"
    /\ calls < 3
    /\ calls' = calls + 1
    /\ outbound' = outbound + 1
    /\ UNCHANGED <<instance_vars, pc, op, request, caller_payload, sent, result,
                   invocations, validated, repeated, reply, fold_vars, conc_vars>>

\* the awaited call raises: nothing catches it, the caller gets the error
BackendFail(status) ==
    /\ pc = "awaiting"
    /\ result' = [kind |-> "backend_error", status |-> status]
    /\ pc' = "done"
    /\ UNCHANGED <<instance_vars, op, request, caller_payload, sent, calls,
                   invocations, validated, outbound, repeated, reply, fold_vars,
                   conc_vars>>

\* MosaicMLProvider(c) is about to be called with some RouteConfig c
Init ==
    /\ config \in RouteConfigs \cup MismatchedRouteConfigs
    /\ mosaicml_config = None
    /\ constructed = "pending"
    /\ InitInvocations
    /\ fold_messages = <<>>
    /\ fold_result = Pending
    /\ tasks = NoTasks

Next ==
    \/ Construct
    \/ \E payload \in ChatRequests : Chat(payload)
    \/ \E payload \in CompletionsRequests \cup PromptlessRequests : Completions(payload)
    \/ \E payload \in EmbeddingsRequests \cup TextlessRequests : Embeddings(payload)
    \/ \E resp \in TextReplies \cup EmbeddingReplies : BackendReply(resp)
    \/ \E status \in BackendStatuses : BackendFail(status)

Spec == Init /\ [][Next]_vars

----------------------------------------------------------------------------
(* Specification of the folding alone: the input is drawn in Init and the  *)
(* parser is applied to it.                                                *)

InitFold ==
    /\ fold_messages \in FoldInputs
    /\ fold_result = Pending
    /\ InitAdapter(HostedRoute)
    /\ tasks = NoTasks

ParseChatMessages ==
    /\ fold_result = Pending
    /\ fold_result' = parse_chat_messages_to_prompt(fold_messages)
    /\ UNCHANGED <<fold_messages, adapter_vars, conc_vars>>

NextFold == ParseChatMessages

SpecFold == InitFold /\ [][NextFold]_vars

----------------------------------------------------------------------------
(* Specification of concurrent invocations: the operations are coroutines  *)
(* on one event loop, so each runs without interruption from its entry to  *)
(* its await, stays suspended there while others run, and resumes alone    *)
(* when its own call returns or raises. Each task makes one invocation.    *)

Tasks == 1..NumTasks

IdleTask == [pc |-> "idle", op |-> "none", request |-> EmptyDict, sent |-> NoCall,
             result |-> NoResult, reply |-> NoReply]

\* the requests the concurrent invocations are made with
ConcChatRequests ==
    {p \in ChatRequests :
        /\ DOMAIN p = {"messages", "temperature", "max_tokens", "stop"}
        /\ Len(p["messages"].list) = 1
        /\ p["messages"].list[1].role \in {"user", "assistant"}}
ConcCompletionsRequests ==
    {p \in CompletionsRequests :
        /\ DOMAIN p = {"prompt", "temperature", "max_tokens", "stop"}
        /\ IsStr(p["prompt"])}
ConcEmbeddingsRequests ==
    {p \in EmbeddingsRequests : DOMAIN p \subseteq {"text", "model"} /\ IsStr(p["text"])}

ConcRequests(o) ==
    CASE o = "chat" -> ConcChatRequests
      [] o = "completions" -> ConcCompletionsRequests
      [] o = "embeddings" -> ConcEmbeddingsRequests

\* an operation from its entry up to its await: the error raised, or the
\* body to send
OperationOutcome(o, payload) ==
    IF RequestValidation(o, payload) # None
    THEN RequestValidation(o, payload)
    ELSE CASE o = "chat" -> ChatPrepare(payload)
           [] o = "completions" -> CompletionsPrepare(payload)
           [] o = "embeddings" -> EmbeddingsPrepare(payload)

\* an operation after its await: the response built from the reply
OperationResponse(o, resp) ==
    CASE o = "chat" -> ChatResponse(resp)
      [] o = "completions" -> CompletionsResponse(resp)
      [] o = "embeddings" -> EmbeddingsResponse(resp)

SetTask(i, t) == tasks' = [j \in Tasks |-> IF j = i THEN t ELSE tasks[j]]

InitConc ==
    /\ \E c \in RouteConfigs : InitAdapter(c)
    /\ fold_messages = <<>>
    /\ fold_result = Pending
    /\ tasks = [i \in Tasks |-> IdleTask]

\* task i enters operation o and runs to its await, or to the error
TaskStart(i, o, payload) ==
    /\ tasks[i].pc = "idle"
    /\ LET outcome == OperationOutcome(o, payload)
       IN  SetTask(i, IF outcome.kind = "call"
                      THEN [pc |-> "awaiting", op |-> o, request |-> payload,
                            sent |-> SendRequestArgs(config.model.name, outcome.body),
                            result |-> NoResult, reply |-> NoReply]
                      ELSE [pc |-> "done", op |-> o, request |-> payload,
                            sent |-> NoCall, result |-> outcome, reply |-> NoReply])
    /\ UNCHANGED <<fold_vars, adapter_vars>>

\* a variant whose resumed task builds its response as the operation of
\* whichever task is suspended would
TaskReplyMisrouted(i, resp) ==
    /\ tasks[i].pc = "awaiting"
    /\ \E j \in Tasks :
          /\ tasks[j].pc = "awaiting"
          /\ resp \in (IF tasks[j].op = "embeddings" THEN EmbeddingReplies ELSE TextReplies)
          /\ SetTask(i, [pc |-> "done", op |-> tasks[i].op, request |-> tasks[i].request,
                         sent |-> tasks[i].sent,
                         result |-> OperationResponse(tasks[j].op, resp),
                         reply |-> resp])
    /\ UNCHANGED <<fold_vars, adapter_vars>>

\* the call task i awaits returns: task i resumes and builds its response
TaskReply(i, resp) ==
    /\ tasks[i].pc = "awaiting"
    /\ resp \in (IF tasks[i].op = "embeddings" THEN EmbeddingReplies ELSE TextReplies)
    /\ SetTask(i, [pc |-> "done", op |-> tasks[i].op, request |-> tasks[i].request,
                   sent |-> tasks[i].sent,
                   result |-> OperationResponse(tasks[i].op, resp),
                   reply |-> resp])
    /\ UNCHANGED <<fold_vars, adapter_vars>>

\* the call task i awaits raises: task i ends with that error
TaskFail(i, status) ==
    /\ tasks[i].pc = "awaiting"
    /\ SetTask(i, [pc |-> "done", op |-> tasks[i].op, request |-> tasks[i].request,
                   sent |-> tasks[i].sent,
                   result |-> [kind |-> "backend_error", status |-> status],
                   reply |-> NoReply])
    /\ UNCHANGED <<fold_vars, adapter_vars>>

NextConc ==
    \/ \E i \in Tasks, o \in {"chat", "completions", "embeddings"} :
          \E payload \in ConcRequests(o) : TaskStart(i, o, payload)
    \/ \E i \in Tasks, resp \in TextReplies \cup EmbeddingReplies : TaskReply(i, resp)
    \/ \E i \in Tasks, status \in BackendStatuses : TaskFail(i, status)

SpecConc == InitConc /\ [][NextConc]_vars

----------------------------------------------------------------------------
(* Properties of the folding, stated on the roles of the input alone.      *)

Folded == fold_result # Pending
NumMsgs == Len(fold_messages)
RoleAt(i) == fold_messages[i].role

\* two adjacent messages carry the same role
SameRoleAdjacent == \E i \in 1..(NumMsgs - 1) : RoleAt(i) = RoleAt(i + 1)
\* message i is an assistant message with no user message right before it
MisplacedAssistant(i) ==
    /\ RoleAt(i) = "assistant"
    /\ (i = 1 \/ RoleAt(i - 1) # "user")
\* message i carries a role outside system / user / assistant
UnknownRole(i) == RoleAt(i) \notin Roles
\* message i is rejected on its own by the loop
Offending(i) == MisplacedAssistant(i) \/ UnknownRole(i)
\* message i is the first one the loop rejects
FirstOffending(i) ==
    /\ i \in 1..NumMsgs
    /\ Offending(i)
    /\ \A j \in 1..(i - 1) : ~Offending(j)
LastIsUser == NumMsgs > 0 /\ RoleAt(NumMsgs) = "user"

\* C3: whenever two adjacent messages share a role, folding fails with the
\* consecutive-role error, whichever role repeats and whatever else the
\* sequence holds.
C3_ConsecutiveRolesRejected ==
    (Folded /\ SameRoleAdjacent) => fold_result = MlflowException(E_CONSECUTIVE)

\* C3 witness: a folded sequence whose repeated role is the unknown one,
\* placed after a valid opening.
C3_Witness ==
    /\ Folded
    /\ NumMsgs = 3
    /\ RoleAt(1) = "user" /\ RoleAt(2) = "tool" /\ RoleAt(3) = "tool"
    /\ fold_result = MlflowException(E_CONSECUTIVE)

\* C4 as stated: every sequence whose last message is not a user message
\* fails with the must-end-with-user error.
C4_Original_NotEndingOnUserGivesEndError ==
    (Folded /\ ~LastIsUser) => fold_result = MlflowException(E_END_USER)

\* C4 amended: a sequence that no earlier check rejects (no two adjacent
\* messages share a role, no message is of an unknown role, no assistant
\* message is misplaced) and whose last message is not a user message (or
\* that is empty) fails with the must-end-with-user error.
C4_EndErrorWhenNothingElseRejects ==
    ( /\ Folded
      /\ ~LastIsUser
      /\ ~SameRoleAdjacent
      /\ \A i \in 1..NumMsgs : ~Offending(i) )
    => fold_result = MlflowException(E_END_USER)

\* C4 witness: [user, assistant] is folded and rejected for its ending.
C4_Witness ==
    /\ Folded
    /\ NumMsgs = 2
    /\ RoleAt(1) = "user" /\ RoleAt(2) = "assistant"
    /\ fold_result = MlflowException(E_END_USER)

\* C5 as stated: every sequence holding an assistant message that is not
\* right after a user message fails with the misplaced-assistant error.
C5_Original_MisplacedAssistantGivesAssistantError ==
    (Folded /\ \E i \in 1..NumMsgs : MisplacedAssistant(i))
    => fold_result = MlflowException(E_ASSISTANT)

\* C5 amended: in a sequence with no two adjacent messages of the same role,
\* when the first message the loop rejects is a misplaced assistant message,
\* folding fails with the misplaced-assistant error.
C5_FirstOffenderAssistantGivesAssistantError ==
    ( /\ Folded
      /\ ~SameRoleAdjacent
      /\ \E i \in 1..NumMsgs : FirstOffending(i) /\ MisplacedAssistant(i) )
    => fold_result = MlflowException(E_ASSISTANT)

\* C5 witness: assistant right after a system message.
C5_Witness ==
    /\ Folded
    /\ NumMsgs = 3
    /\ RoleAt(1) = "system" /\ RoleAt(2) = "assistant" /\ RoleAt(3) = "user"
    /\ fold_result = MlflowException(E_ASSISTANT)

\* C6 as stated: every sequence holding a message of an unknown role fails
\* with the invalid-role error.
C6_Original_UnknownRoleGivesInvalidRoleError ==
    (Folded /\ \E i \in 1..NumMsgs : UnknownRole(i))
    => \E i \in 1..NumMsgs :
          UnknownRole(i) /\ fold_result = MlflowException(E_INVALID_ROLE(RoleAt(i)))

\* C6 amended: in a sequence with no two adjacent messages of the same role,
\* when the first message the loop rejects is of an unknown role, folding
\* fails with the invalid-role error naming that role and the three legal
\* ones.
C6_FirstOffenderUnknownGivesInvalidRoleError ==
    ( /\ Folded
      /\ ~SameRoleAdjacent )
    => \A i \in 1..NumMsgs :
          (FirstOffending(i) /\ UnknownRole(i))
          => fold_result = MlflowException(
                "Invalid role tool inputted. Must be one of 'system', 'user', or 'assistant'.")

\* C6 witness: an unknown role after a well-formed exchange.
C6_Witness ==
    /\ Folded
    /\ NumMsgs = 3
    /\ RoleAt(1) = "user" /\ RoleAt(2) = "assistant" /\ RoleAt(3) = "tool"
    /\ fold_result.kind = "error"
    /\ fold_result.message = E_INVALID_ROLE("tool")

\* the block the claim assigns to message i, decided by roles only
ExpectedBlock(i) ==
    LET c == fold_messages[i].content
    IN  IF RoleAt(i) = "system"
        THEN <<"<", "s", ">", "[", "I", "N", "S", "T", "]", " ",
               "<", "<", "S", "Y", "S", ">", ">", " ">>
             \o c \o <<" ", "<", "<", "/", "S", "Y", "S", ">", ">">>
        ELSE IF RoleAt(i) = "user"
        THEN (IF i = 1 \/ RoleAt(i - 1) # "system"
              THEN <<"<", "s", ">", "[", "I", "N", "S", "T", "]">>
              ELSE <<>>)
             \o <<" ">> \o c \o <<" ", "[", "/", "I", "N", "S", "T", "]">>
        ELSE <<" ">> \o c \o <<" ", "<", "/", "s", ">">>

RECURSIVE ExpectedPrompt(_)
ExpectedPrompt(n) ==
    IF n = 0 THEN <<>> ELSE ExpectedPrompt(n - 1) \o ExpectedBlock(n)

\* "<s>[INST] <<SYS>> be nice <</SYS>> hi [/INST]"
BeNiceHiPrompt ==
    <<"<", "s", ">", "[", "I", "N", "S", "T", "]", " ",
      "<", "<", "S", "Y", "S", ">", ">", " ",
      "b", "e", " ", "n", "i", "c", "e", " ",
      "<", "<", "/", "S", "Y", "S", ">", ">", " ",
      "h", "i", " ", "[", "/", "I", "N", "S", "T", "]">>

BeNiceHiMessages == <<Message("system", C_BE_NICE), Message("user", C_HI)>>

\* C7: the prompt of an accepted sequence is the in-order concatenation of
\* one block per message, the user block opened with "<s>[INST]" exactly
\* when the user message is first or does not follow a system message; and
\* [system "be nice", user "hi"] folds to
\* "<s>[INST] <<SYS>> be nice <</SYS>> hi [/INST]".
C7_PromptIsConcatenationOfBlocks ==
    /\ fold_result.kind = "prompt" => fold_result.prompt = ExpectedPrompt(NumMsgs)
    /\ (Folded /\ fold_messages = BeNiceHiMessages)
       => fold_result = Prompt(BeNiceHiPrompt)

\* C7 witness: the example of the claim has been folded into a prompt.
C7_Witness ==
    /\ fold_messages = BeNiceHiMessages
    /\ fold_result.kind = "prompt"

----------------------------------------------------------------------------
(* Properties of the operations.                                           *)

\* the caller's payload has the field, with whatever value
Carries(field) == field \in DOMAIN request
\* the caller's payload has the field with a value other than None
CarriesSet(field) == field \in DOMAIN request /\ request[field] # [none |-> TRUE]

Invoked == pc # "idle"
Finished == pc = "done"
\* the invocation ended in an error raised by the adapter's own checks
EndedInValidationError ==
    Finished /\ result.kind \in {"http_error", "model_field_error",
                                 "request_validation_error"}
\* the invocation got to the backend
ReachedBackend ==
    \/ pc = "awaiting"
    \/ Finished /\ result.kind \in {"response", "backend_error"}

\* the roles of a message sequence obey the prompt grammar
WellFormedTurns(ms) ==
    /\ Len(ms) > 0
    /\ \A i \in 1..Len(ms) : ms[i].role \in {"system", "user", "assistant"}
    /\ \A i \in 1..(Len(ms) - 1) : ms[i].role # ms[i + 1].role
    /\ \A i \in 1..Len(ms) :
          ms[i].role = "assistant" => (i > 1 /\ ms[i - 1].role = "user")
    /\ ms[Len(ms)].role = "user"

\* C1: an invocation of chat, completions or embeddings that ends in a
\* validation error (a "model" field, a backend-named field supplied
\* directly, a violation of the prompt grammar) has made no outbound call.
C1_NoCallBeforeValidationError ==
    EndedInValidationError => (calls = 0 /\ sent = NoCall)

\* C1 witness: a chat invocation rejected for its messages after an earlier
\* invocation that did call the backend: the rejected one added no call.
C1_Witness ==
    /\ op = "chat"
    /\ EndedInValidationError
    /\ result.kind = "http_error"
    /\ ~WellFormedTurns(request["messages"].list)
    /\ invocations = 2
    /\ outbound = 1
    /\ calls = 0

\* C2: an invocation that passes validation issues exactly one outbound
\* call and none issues more; a failed call is not retried, its error is
\* the invocation's result; k invocations that pass validation, identical
\* ones included, make exactly k calls.
C2_ExactlyOneCallPerValidInvocation ==
    /\ calls \in {0, 1}
    /\ ReachedBackend => (calls = 1 /\ sent # NoCall)
    /\ (Invoked /\ ~ReachedBackend) => calls = 0
    /\ outbound = validated
    /\ outbound <= invocations

\* C2 witness: the same request made twice, each reaching the backend, the
\* second one failing there: two calls in all, one by this invocation.
C2_Witness ==
    /\ repeated
    /\ invocations = 2
    /\ outbound = 2
    /\ Finished
    /\ result.kind = "backend_error"
    /\ calls = 1

\* the parameters of the body a chat invocation sent
SentParameters == sent.payload["parameters"].dict

\* the remapping of max_tokens in a chat body that was sent
ChatRemapped ==
    (op = "chat" /\ ReachedBackend) =>
        /\ "max_tokens" \notin DOMAIN SentParameters
        /\ CarriesSet("max_tokens") =>
              /\ "max_new_tokens" \in DOMAIN SentParameters
              /\ SentParameters["max_new_tokens"] = request["max_tokens"]
        /\ ~CarriesSet("max_tokens") => "max_new_tokens" \notin DOMAIN SentParameters
        /\ \A k \in DOMAIN request \ {"messages", "max_tokens"} :
              CarriesSet(k) => (k \in DOMAIN SentParameters /\ SentParameters[k] = request[k])
        /\ \A k \in DOMAIN SentParameters \ {"max_new_tokens"} :
              CarriesSet(k) /\ k # "messages"

MaxNewTokensRejected ==
    /\ Finished
    /\ result = [kind |-> "http_error", status |-> 422,
                 detail |-> "Invalid parameter max_new_tokens. Use max_tokens instead."]
    /\ calls = 0
    /\ sent = NoCall

\* C8 as stated: max_tokens is sent as max_new_tokens, and every chat
\* payload that carries max_new_tokens (read here as: with a value) fails
\* with the 422 "Invalid parameter max_new_tokens. Use max_tokens instead."
\* error without a backend call.
C8_Original_EveryMaxNewTokensPayloadGets422 ==
    /\ ChatRemapped
    /\ (op = "chat" /\ Invoked /\ CarriesSet("max_new_tokens")) => MaxNewTokensRejected

\* C8 amended: max_tokens = v is sent as max_new_tokens = v with no
\* max_tokens key and every other set parameter unchanged; a chat payload
\* that carries max_new_tokens with a value other than None, and no "model"
\* field with a value other than None, fails with the 422 "Invalid
\* parameter max_new_tokens. Use max_tokens instead." error without a
\* backend call.
C8_MaxTokensRemappedAndBackendNameRejected ==
    /\ ChatRemapped
    /\ (op = "chat" /\ Invoked /\ CarriesSet("max_new_tokens") /\ ~CarriesSet("model"))
       => MaxNewTokensRejected

\* C8 witness: a chat body went out with max_new_tokens = 10 taken from
\* max_tokens, next to the temperature of the request.
C8_Witness ==
    /\ op = "chat"
    /\ pc = "awaiting"
    /\ request["max_tokens"] = [num |-> 10]
    /\ SentParameters = [max_new_tokens |-> [num |-> 10], temperature |-> [num |-> 1]]

\* C9 as stated: every payload that contains a "model" field is rejected by
\* each operation and no backend call is made for it.
C9_Original_EveryModelFieldRejected ==
    (Invoked /\ Carries("model")) => (EndedInValidationError /\ calls = 0)

\* C9 amended: a payload whose "model" field has a value other than None is
\* rejected by chat, by completions and by embeddings alike, whatever else
\* it contains, and no backend call is made for it (the rejection is the
\* model-field error whenever the request has its required field).
C9_SetModelFieldRejected ==
    (Invoked /\ CarriesSet("model")) =>
        /\ EndedInValidationError
        /\ Carries(RequiredField(op)) => result = [kind |-> "model_field_error"]
        /\ calls = 0
        /\ sent = NoCall

\* C9 witness: an embeddings request with a model field, and an inputs
\* field besides, was rejected for the model field.
C9_Witness ==
    /\ op = "embeddings"
    /\ Finished
    /\ CarriesSet("model")
    /\ CarriesSet("inputs")
    /\ result = [kind |-> "model_field_error"]

InvalidParameterError(status, backend_name, normalized_name) ==
    [kind |-> "http_error", status |-> status,
     detail |-> "Invalid parameter " \o backend_name \o ". Use "
                \o normalized_name \o " instead."]

\* C10: chat reports a directly supplied max_new_tokens and every violation
\* of the prompt grammar with status 422; completions reports a directly
\* supplied max_new_tokens, and embeddings a directly supplied inputs, with
\* status 400.
C10_StatusDependsOnOperation ==
    /\ (Finished /\ result.kind = "http_error") =>
          result.status = (IF op = "chat" THEN 422 ELSE 400)
    /\ (Invoked /\ ~CarriesSet("model")) =>
          /\ (op = "chat" /\ CarriesSet("max_new_tokens")) =>
                (Finished /\ result = InvalidParameterError(422, "max_new_tokens", "max_tokens"))
          /\ (op = "chat" /\ ~CarriesSet("max_new_tokens")
                /\ ~WellFormedTurns(request["messages"].list)) =>
                (Finished /\ result.kind = "http_error" /\ result.status = 422)
          /\ (op = "completions" /\ CarriesSet("max_new_tokens")) =>
                (Finished /\ result = InvalidParameterError(400, "max_new_tokens", "max_tokens"))
          /\ (op = "embeddings" /\ CarriesSet("inputs")) =>
                (Finished /\ result = InvalidParameterError(400, "inputs", "text"))

\* C10 witness: completions, as the second invocation on the adapter,
\* answered 400 to a directly supplied max_new_tokens.
C10_Witness ==
    /\ op = "completions"
    /\ Finished
    /\ CarriesSet("max_new_tokens")
    /\ result.kind = "http_error"
    /\ result.status = 400
    /\ invocations = 2

----------------------------------------------------------------------------
(* C11: the backend name of a rename-table entry supplied directly.        *)

\* the entry of the rename table of the operation invoked
BackendName == IF op = "embeddings" THEN "inputs" ELSE "max_new_tokens"
NormalizedName == IF op = "embeddings" THEN "text" ELSE "max_tokens"

\* C11 as stated: in chat, completions and embeddings alike, a payload that
\* carries the backend name of the operation's rename-table entry (read
\* here as: with a value, in a payload without a model field) fails with a
\* 422 error "Invalid parameter <backend name>. Use <normalized name>
\* instead.".
C11_Original_BackendNameGets422Everywhere ==
    (Invoked /\ ~CarriesSet("model") /\ CarriesSet(BackendName)) =>
        /\ Finished
        /\ result = InvalidParameterError(422, BackendName, NormalizedName)

\* C11 amended: a payload without a set model field whose backend-named
\* field (max_new_tokens in chat and completions, inputs in embeddings) has
\* a value other than None fails, before any backend call, with "Invalid
\* parameter <backend name>. Use <normalized name> instead."; the status is
\* 422 in chat and 400 in completions and embeddings.
C11_BackendNameRejectedWithOperationStatus ==
    (Invoked /\ ~CarriesSet("model") /\ CarriesSet(BackendName)) =>
        /\ Finished
        /\ result = InvalidParameterError(IF op = "chat" THEN 422 ELSE 400,
                                          BackendName, NormalizedName)
        /\ calls = 0
        /\ sent = NoCall

\* C11 witness: embeddings was handed text and inputs together, without a
\* model field, and answered 400 "Invalid parameter inputs. Use text
\* instead." without calling the backend.
C11_Witness ==
    /\ op = "embeddings"
    /\ Finished
    /\ CarriesSet("inputs")
    /\ ~Carries("model")
    /\ result = [kind |-> "http_error", status |-> 400,
                 detail |-> "Invalid parameter inputs. Use text instead."]
    /\ calls = 0

----------------------------------------------------------------------------
(* C12: a request without its required field.                              *)

\* the invocation is one of completions without a prompt, or of embeddings
\* without a text
MissingRequiredField ==
    \/ op = "completions" /\ ~Carries("prompt")
    \/ op = "embeddings" /\ ~Carries("text")

----------------------------------------------------------------------------
(* C13: construction.                                                      *)

\* the RouteConfig handed to __init__ has no provider config, or one that
\* is not a MosaicML config
MismatchedConfig ==
    \/ config.model.config = [none |-> TRUE]
    \/ DOMAIN config.model.config # {"mosaicml_api_key", "mosaicml_api_base"}

\* C13: construction from a RouteConfig whose provider config is absent or
\* not of the MosaicML type ends in a TypeError, and no invocation is ever
\* processed for such a config; construction from a matching config
\* succeeds and stores that config as the adapter's mosaicml_config.
C13_MismatchedConfigFailsConstruction ==
    /\ constructed # "pending" =>
          (constructed = "TypeError" <=> MismatchedConfig)
    /\ constructed = "ok" => mosaicml_config = config.model.config
    /\ constructed # "ok" => mosaicml_config = [none |-> TRUE]
    /\ MismatchedConfig => (~Invoked /\ invocations = 0 /\ outbound = 0)
    /\ Invoked => constructed = "ok"

\* C13 witness: construction from a RouteConfig that carries an OpenAI
\* config ended in the TypeError and left no adapter behind.
C13_Witness ==
    /\ constructed = "TypeError"
    /\ "openai_api_key" \in DOMAIN config.model.config
    /\ mosaicml_config = [none |-> TRUE]
    /\ ~Invoked

----------------------------------------------------------------------------
(* C14: concurrent invocations on one adapter.                             *)

\* what task i has sent and got is what its request and its reply alone
\* determine
RunsAsIfAlone(i) ==
    LET t == tasks[i]
        alone == OperationOutcome(t.op, t.request)
    IN  t.pc # "idle" =>
          /\ alone.kind # "call" =>
                (t.pc = "done" /\ t.sent = NoCall /\ t.result = alone)
          /\ alone.kind = "call" =>
                /\ t.sent = SendRequestArgs(config.model.name, alone.body)
                /\ (t.pc = "done" /\ t.reply # NoReply) =>
                      t.result = OperationResponse(t.op, t.reply)
                /\ (t.pc = "done" /\ t.reply = NoReply) =>
                      t.result.kind = "backend_error"

\* C14: under every interleaving of the steps of the invocations in flight
\* on one adapter, each invocation's outbound call and its result are those
\* its own request and its own backend reply give when it runs alone, and
\* no step of any invocation changes the adapter's configuration.
C14_ConcurrentInvocationsDoNotInterfere ==
    /\ [](\A i \in DOMAIN tasks : RunsAsIfAlone(i))
    /\ [][config' = config /\ mosaicml_config' = mosaicml_config]_vars

\* C14 witness: a chat invocation is suspended at its await while an
\* embeddings invocation on the same adapter, started meanwhile, has got
\* its response.
C14_Witness ==
    /\ tasks # <<>>
    /\ tasks[1].pc = "awaiting"
    /\ tasks[1].op = "chat"
    /\ tasks[2].pc = "done"
    /\ tasks[2].op = "embeddings"
    /\ tasks[2].result.kind = "response"
    /\ tasks[2].result.embeddings = tasks[2].reply.outputs

----------------------------------------------------------------------------
(* C15: the response of chat.                                              *)

\* the invocation returned a response built from the backend's reply
Answered == Finished /\ result.kind = "response"

\* C15: a chat invocation that succeeds returns one candidate per output
\* string of the backend's reply, in the reply's order, each with the role
\* "assistant", the output as its content and empty metadata, and response
\* metadata that carries the model name and the route type of the
\* RouteConfig.
C15_ChatResponseMirrorsOutputs ==
    (op = "chat" /\ Answered) =>
        /\ reply # NoReply
        /\ DOMAIN result.candidates = 1..Len(reply.outputs)
        /\ \A i \in 1..Len(reply.outputs) :
              /\ result.candidates[i].message.role = "assistant"
              /\ result.candidates[i].message.content = reply.outputs[i]
              /\ result.candidates[i].metadata = <<>>
              /\ DOMAIN result.candidates[i] = {"message", "metadata"}
        /\ result.metadata = [model |-> config.model.name,
                              route_type |-> config.route_type]

\* C15 witness: the backend replied "hello!" and "hi" to a chat request,
\* and the response lists them as two assistant candidates in that order.
C15_Witness ==
    /\ op = "chat"
    /\ Answered
    /\ Len(reply.outputs) = 2
    /\ result.candidates[1].message.content = <<"h", "e", "l", "l", "o", "!">>
    /\ result.candidates[2].message.content = <<"h", "i">>
    /\ result.metadata.model = "llama2-70b-chat"

----------------------------------------------------------------------------
(* C16: the body chat sends.                                               *)

\* the block message i of the sequence ms contributes to the prompt, told
\* from its role and the role before it
TurnBlock(ms, i) ==
    CASE ms[i].role = "system" ->
            <<"<", "s", ">", "[", "I", "N", "S", "T", "]", " ",
              "<", "<", "S", "Y", "S", ">", ">", " ">>
            \o ms[i].content \o <<" ", "<", "<", "/", "S", "Y", "S", ">", ">">>
      [] ms[i].role = "user" ->
            (IF i > 1 /\ ms[i - 1].role = "system"
             THEN <<>>
             ELSE <<"<", "s", ">", "[", "I", "N", "S", "T", "]">>)
            \o <<" ">> \o ms[i].content \o <<" ", "[", "/", "I", "N", "S", "T", "]">>
      [] ms[i].role = "assistant" ->
            <<" ">> \o ms[i].content \o <<" ", "<", "/", "s", ">">>

RECURSIVE TurnBlocks(_, _)
\* the blocks of the first n messages of ms, one after the other
TurnBlocks(ms, n) ==
    IF n = 0 THEN <<>> ELSE TurnBlocks(ms, n - 1) \o TurnBlock(ms, n)

\* the fields of the request that go to the parameters under their own name
PassedThrough ==
    {k \in DOMAIN request \ {"messages", "max_tokens"} : CarriesSet(k)}

\* C16: a chat invocation that gets past validation sends the body
\* {inputs: [prompt], parameters: p}: inputs holds exactly one element, the
\* folded prompt of the whole message sequence, and p is the remapped rest
\* of the request, which never contains messages.
C16_ChatBodyIsPromptAndParameters ==
    (op = "chat" /\ ReachedBackend) =>
        LET ms == request["messages"].list
        IN  /\ DOMAIN sent.payload = {"inputs", "parameters"}
            /\ sent.payload["inputs"] = [list |-> <<TurnBlocks(ms, Len(ms))>>]
            /\ "messages" \notin DOMAIN SentParameters
            /\ DOMAIN SentParameters =
                  PassedThrough \cup (IF CarriesSet("max_tokens")
                                      THEN {"max_new_tokens"} ELSE {})
            /\ \A k \in PassedThrough : SentParameters[k] = request[k]
            /\ CarriesSet("max_tokens") =>
                  SentParameters["max_new_tokens"] = request["max_tokens"]

\* C16 witness: the chat request [system "hi", user "hi"] with max_tokens 10
\* was sent as one prompt covering both messages, with the parameters
\* temperature and max_new_tokens.
C16_Witness ==
    /\ op = "chat"
    /\ pc = "awaiting"
    /\ Len(request["messages"].list) = 2
    /\ sent.payload["inputs"].list =
          << <<"<", "s", ">", "[", "I", "N", "S", "T", "]", " ",
               "<", "<", "S", "Y", "S", ">", ">", " ", "h", "i", " ",
               "<", "<", "/", "S", "Y", "S", ">", ">", " ", "h", "i", " ",
               "[", "/", "I", "N", "S", "T", "]">> >>
    /\ DOMAIN SentParameters = {"temperature", "max_new_tokens"}

----------------------------------------------------------------------------
(* C17: completions.                                                       *)

\* the fields of a completions request that go to the parameters under
\* their own name
CompletionsPassedThrough ==
    {k \in DOMAIN request \ {"prompt", "max_tokens"} : CarriesSet(k)}

\* C17: completions sends a single-string prompt as a one-element inputs
\* list and a list prompt unchanged; the forwarded parameters hold no
\* prompt and hold max_tokens under the name max_new_tokens; the response
\* has one candidate per backend output, in order, with the output as its
\* text and empty metadata.
C17_CompletionsBodyAndResponse ==
    /\ (op = "completions" /\ ReachedBackend) =>
          /\ DOMAIN sent.payload = {"inputs", "parameters"}
          /\ ("str" \in DOMAIN request["prompt"]) =>
                sent.payload["inputs"] = [list |-> <<request["prompt"].str>>]
          /\ ("list" \in DOMAIN request["prompt"]) =>
                sent.payload["inputs"] = request["prompt"]
          /\ DOMAIN SentParameters =
                CompletionsPassedThrough \cup (IF CarriesSet("max_tokens")
                                               THEN {"max_new_tokens"} ELSE {})
          /\ \A k \in CompletionsPassedThrough : SentParameters[k] = request[k]
          /\ CarriesSet("max_tokens") =>
                SentParameters["max_new_tokens"] = request["max_tokens"]
    /\ (op = "completions" /\ Answered) =>
          /\ DOMAIN result.candidates = 1..Len(reply.outputs)
          /\ \A i \in 1..Len(reply.outputs) :
                result.candidates[i] = [text |-> reply.outputs[i], metadata |-> <<>>]

\* C17 witness: the prompt "hi" with max_tokens 10 went out as inputs
\* ["hi"] with max_new_tokens 10, and the two outputs of the reply came
\* back as two candidates in the reply's order.
C17_Witness ==
    /\ op = "completions"
    /\ Answered
    /\ request["prompt"] = [str |-> <<"h", "i">>]
    /\ sent.payload["inputs"] = [list |-> << <<"h", "i">> >>]
    /\ DOMAIN SentParameters = {"temperature", "max_new_tokens"}
    /\ SentParameters["max_new_tokens"] = [num |-> 10]
    /\ Len(reply.outputs) = 2
    /\ result.candidates[2].text = <<"h", "i">>

----------------------------------------------------------------------------
(* C18: embeddings.                                                        *)

\* the text of the request as a list: a bare string becomes a one-element
\* list, a list stays as it is
TextAsList ==
    IF "str" \in DOMAIN request["text"]
    THEN [list |-> <<request["text"].str>>]
    ELSE request["text"]

\* the fields of an embeddings request besides text that have a value
ExtraFields == {k \in DOMAIN request \ {"text"} : CarriesSet(k)}

\* the response carries the backend's outputs and the RouteConfig's metadata
EmbeddingsReturnedUnchanged ==
    (op = "embeddings" /\ Answered) =>
        /\ result.embeddings = reply.outputs
        /\ result.metadata = [model |-> config.model.name,
                              route_type |-> config.route_type]

\* C18 as stated: the body embeddings sends is {"inputs": [...]}, the text
\* as a list, and the backend's outputs come back unchanged with the
\* RouteConfig's metadata.
C18_Original_BodyIsInputsOnly ==
    /\ (op = "embeddings" /\ ReachedBackend) =>
          sent.payload = [inputs |-> TextAsList]
    /\ EmbeddingsReturnedUnchanged

\* C18 amended: the body embeddings sends has the text under the key
\* inputs at its top level, a bare string as a one-element list and a list
\* unchanged, has neither a text key nor a parameters wrapper, and is
\* exactly {"inputs": [...]} when the request carries no other field with a
\* value; the backend's outputs come back as the embeddings unchanged, with
\* the metadata {model, route_type} of the RouteConfig.
C18_InputsAtTopLevelNoWrapper ==
    /\ (op = "embeddings" /\ ReachedBackend) =>
          /\ "inputs" \in DOMAIN sent.payload
          /\ sent.payload["inputs"] = TextAsList
          /\ "text" \notin DOMAIN sent.payload
          /\ "parameters" \notin DOMAIN sent.payload
          /\ ExtraFields = {} => sent.payload = [inputs |-> TextAsList]
    /\ EmbeddingsReturnedUnchanged

\* C18 witness: the text "cats" alone went out as {"inputs": ["cats"]} and
\* the two vectors of the reply came back as the embeddings, in order.
C18_Witness ==
    /\ op = "embeddings"
    /\ Answered
    /\ request = [text |-> [str |-> <<"c", "a", "t", "s">>]]
    /\ sent.payload = [inputs |-> [list |-> << <<"c", "a", "t", "s">> >>]]
    /\ result.embeddings = << <<1, 2>>, <<3, 4>> >>

----------------------------------------------------------------------------
(* C19: folding failures inside chat.                                      *)

\* the chat invocation got as far as the folding: no model field and no
\* max_new_tokens with a value stopped it before
ChatReachedFolding ==
    /\ op = "chat"
    /\ Invoked
    /\ ~CarriesSet("model")
    /\ ~CarriesSet("max_new_tokens")

\* the message the folding fails with on the sequence ms, told from the
\* roles of ms: the consecutive-role message if two neighbours share a
\* role; else the message for the first message that is a misplaced
\* assistant or of an unknown role; else the end message
FoldingMessage(ms) ==
    LET n == Len(ms)
        bad(i) == \/ ms[i].role \notin {"system", "user", "assistant"}
                  \/ ms[i].role = "assistant" /\ (i = 1 \/ ms[i - 1].role # "user")
    IN  IF \E i \in 1..(n - 1) : ms[i].role = ms[i + 1].role
        THEN "Consecutive messages cannot have the same 'role'."
        ELSE IF \E i \in 1..n : bad(i)
        THEN LET first == CHOOSE i \in 1..n : bad(i) /\ \A j \in 1..(i - 1) : ~bad(j)
             IN  IF ms[first].role = "assistant"
                 THEN "Messages with role 'assistant' must be preceded by a message with role 'user'."
                 ELSE "Invalid role " \o ms[first].role
                      \o " inputted. Must be one of 'system', 'user', or 'assistant'."
        ELSE "Messages must end with 'user' role for final prompt."

\* C19: every failure of the folding inside chat, whether for consecutive
\* roles, a misplaced assistant message, an invalid role or a sequence that
\* does not end on a user turn, reaches the caller as an HTTP 422 error
\* whose detail contains the folding's message, and in no other form.
C19_FoldingFailureBecomes422 ==
    /\ (ChatReachedFolding /\ ~WellFormedTurns(request["messages"].list)) =>
          /\ Finished
          /\ result = [kind |-> "http_error", status |-> 422,
                       detail |-> "An invalid request structure was submitted. "
                                  \o FoldingMessage(request["messages"].list)]
          /\ calls = 0
    /\ Finished => result.kind # "error"

\* C19 witness: the chat request [user, tool] was answered 422 with the
\* invalid-role message of the folding in the detail.
C19_Witness ==
    /\ op = "chat"
    /\ Finished
    /\ Len(request["messages"].list) = 2
    /\ request["messages"].list[2].role = "tool"
    /\ result.kind = "http_error"
    /\ result.status = 422
    /\ result.detail = "An invalid request structure was submitted. Invalid role tool inputted. Must be one of 'system', 'user', or 'assistant'."

----------------------------------------------------------------------------
(* C20: fields without a value.                                            *)

\* the dict in which the operation forwards the fields of the request: the
\* parameters of the body in chat and completions, the body in embeddings
Forwarded == IF op = "embeddings" THEN sent.payload ELSE SentParameters

\* the fields of the request that are forwarded under another name or as
\* the inputs of the body
RenamedOrInputs ==
    CASE op = "chat" -> {"messages", "max_tokens"}
      [] op = "completions" -> {"prompt", "max_tokens"}
      [] op = "embeddings" -> {"text"}

\* C20: in chat, completions and embeddings no key of the outbound body,
\* and no key of its parameters, has the value None, and every field of the
\* request that has a value and is not renamed is forwarded with its name
\* and its value.
C20_NoneNeverForwarded ==
    ReachedBackend =>
        /\ \A k \in DOMAIN sent.payload : sent.payload[k] # [none |-> TRUE]
        /\ \A k \in DOMAIN Forwarded : Forwarded[k] # [none |-> TRUE]
        /\ \A k \in DOMAIN request \ RenamedOrInputs :
              CarriesSet(k) => (k \in DOMAIN Forwarded /\ Forwarded[k] = request[k])

\* C20 witness: a chat request with max_tokens and stop left at None and a
\* model field passed as None was sent with the temperature as its only
\* parameter.
C20_Witness ==
    /\ op = "chat"
    /\ pc = "awaiting"
    /\ Carries("model")
    /\ request["model"] = [none |-> TRUE]
    /\ request["max_tokens"] = [none |-> TRUE]
    /\ request["stop"] = [none |-> TRUE]
    /\ DOMAIN SentParameters = {"temperature"}
    /\ SentParameters["temperature"] = request["temperature"]

----------------------------------------------------------------------------
(* C21: where the outbound call goes.                                      *)

\* C21: every outbound call of chat, completions and embeddings goes to
\* the path <model name of the RouteConfig>/v1/predict under the configured
\* base URL when one is set and under the default hosted base URL
\* otherwise, with the single header Authorization equal to the configured
\* API key, without a "Bearer" prefix.
C21_CallTargetsPredictEndpointWithBareKey ==
    ReachedBackend =>
        /\ sent.path = config.model.name \o "/v1/predict"
        /\ sent.base_url =
              (IF config.model.config.mosaicml_api_base = ""
               THEN "https://models.hosted-on.mosaicml.hosting"
               ELSE config.model.config.mosaicml_api_base)
        /\ DOMAIN sent.headers = {"Authorization"}
        /\ sent.headers["Authorization"] = config.model.config.mosaicml_api_key

\* C21 witness: an embeddings call on the route with the base URL override
\* went to instructor-large/v1/predict under https://example.test with the
\* key as the Authorization header.
C21_Witness ==
    /\ op = "embeddings"
    /\ pc = "awaiting"
    /\ sent.base_url = "https://example.test"
    /\ sent.path = "instructor-large/v1/predict"
    /\ sent.headers = [Authorization |-> "key"]

----------------------------------------------------------------------------
(* C22: which sequences the folding accepts.                               *)

Accepted == Folded /\ fold_result.kind = "prompt"

\* C22: the folding succeeds exactly on the sequences that are non-empty,
\* use only the roles system, user and assistant, have no two neighbours
\* with the same role, have a user message right before every assistant
\* message, and end on a user message; in every accepted sequence each
\* system message is immediately followed by a user message.
C22_AcceptedIffWellFormed ==
    Folded =>
        /\ fold_result.kind = "prompt" <=>
              /\ NumMsgs > 0
              /\ \A i \in 1..NumMsgs : RoleAt(i) \in {"system", "user", "assistant"}
              /\ \A i \in 1..(NumMsgs - 1) : RoleAt(i) # RoleAt(i + 1)
              /\ \A i \in 1..NumMsgs :
                    RoleAt(i) = "assistant" => (i > 1 /\ RoleAt(i - 1) = "user")
              /\ RoleAt(NumMsgs) = "user"
        /\ fold_result.kind = "prompt" =>
              \A i \in 1..NumMsgs :
                  RoleAt(i) = "system" => (i < NumMsgs /\ RoleAt(i + 1) = "user")

\* C22 witness: [system, user, assistant, user] was folded into a prompt.
C22_Witness ==
    /\ Accepted
    /\ NumMsgs = 4
    /\ RoleAt(1) = "system"
    /\ RoleAt(2) = "user"
    /\ RoleAt(3) = "assistant"
    /\ RoleAt(4) = "user"

----------------------------------------------------------------------------
(* C23: the outcome of the folding is told by the roles alone.             *)

\* the contents tried at each position of a sequence of n messages
ContentsFor(n) == IF n <= MaxRichMsgs THEN RichContents ELSE SmallContents

\* the sequences that have the roles of ms, in the same order, and any
\* contents
SameRoles(ms) ==
    { [i \in 1..Len(ms) |-> Message(ms[i].role, c[i])] :
          c \in [1..Len(ms) -> ContentsFor(Len(ms))] }

\* what kind of outcome a folding result is: a prompt, or which error
OutcomeKind(r) == IF r.kind = "prompt" THEN "prompt" ELSE r.message

\* C23: whether a sequence is accepted, and with which error it is rejected,
\* depends on the roles only: every sequence with the same roles in the
\* same order has the same kind of outcome, whatever its contents, a marker
\* ("[/INST]", "<</SYS>>", "</s>") or the empty string included.
C23_OutcomeKindDependsOnRolesOnly ==
    Folded =>
        \A other \in SameRoles(fold_messages) :
            OutcomeKind(parse_chat_messages_to_prompt(other)) = OutcomeKind(fold_result)

\* C23 witness: a system message whose content is "[/INST]", followed by an
\* assistant message whose content is "<</SYS>>", was rejected as a
\* misplaced assistant, as the same roles with other contents are.
C23_Witness ==
    /\ Folded
    /\ NumMsgs = 2
    /\ fold_messages[1] = Message("system", INST_CLOSE)
    /\ fold_messages[2] = Message("assistant", SYS_CLOSE)
    /\ fold_result = MlflowException(E_ASSISTANT)
    /\ Cardinality(SameRoles(fold_messages)) > 1

----------------------------------------------------------------------------
(* C24: the order of the checks of chat.                                   *)

\* C24: when one chat request breaks several rules, a "model" field with a
\* value is reported whatever else is wrong, and a max_new_tokens with a
\* value is reported with status 422 whenever no "model" field is, however
\* the messages are arranged; a violation of the prompt grammar is reported
\* only when neither is; in all three cases no backend call is made.
C24_ModelThenBackendNameThenGrammar ==
    (op = "chat" /\ Invoked) =>
        /\ CarriesSet("model") =>
              /\ Finished
              /\ result = [kind |-> "model_field_error"]
              /\ calls = 0
              /\ sent = NoCall
        /\ (~CarriesSet("model") /\ CarriesSet("max_new_tokens")) =>
              /\ Finished
              /\ result = InvalidParameterError(422, "max_new_tokens", "max_tokens")
              /\ calls = 0
              /\ sent = NoCall
        /\ (Finished /\ result.kind = "http_error"
                /\ result.detail = "An invalid request structure was submitted. "
                                   \o FoldingMessage(request["messages"].list)) =>
              /\ ~CarriesSet("model")
              /\ ~CarriesSet("max_new_tokens")
              /\ ~WellFormedTurns(request["messages"].list)
              /\ calls = 0
              /\ sent = NoCall

\* C24 witness: a chat request with a "model" field, a max_new_tokens and
\* two user messages in a row ended in the model-field error.
C24_Witness ==
    /\ op = "chat"
    /\ Finished
    /\ CarriesSet("model")
    /\ CarriesSet("max_new_tokens")
    /\ Len(request["messages"].list) = 2
    /\ request["messages"].list[1].role = "user"
    /\ request["messages"].list[2].role = "user"
    /\ result = [kind |-> "model_field_error"]
    /\ calls = 0

\* a chat request with a max_new_tokens, no "model" field and a misplaced
\* assistant message ended in the error for max_new_tokens
C24_SecondRuleReached ==
    /\ op = "chat"
    /\ Finished
    /\ ~CarriesSet("model")
    /\ CarriesSet("max_new_tokens")
    /\ Len(request["messages"].list) = 1
    /\ request["messages"].list[1].role = "assistant"
    /\ result = InvalidParameterError(422, "max_new_tokens", "max_tokens")

----------------------------------------------------------------------------
(* C25: the order of the checks inside the folding.                        *)

\* C25: the folding looks for two neighbours with the same role first, so
\* such a sequence gets the consecutive-role error even when the repeated
\* role is not a valid one; otherwise the first message the loop rejects,
\* a misplaced assistant or an unknown role, decides the error; the error
\* for not ending on a user turn comes only when no neighbours share a role
\* and the loop rejected no message.
C25_ConsecutiveThenFirstOffendingThenEnd ==
    Folded =>
        /\ SameRoleAdjacent => fold_result = MlflowException(E_CONSECUTIVE)
        /\ ~SameRoleAdjacent =>
              \A i \in 1..NumMsgs :
                  FirstOffending(i) =>
                      fold_result = MlflowException(IF RoleAt(i) = "assistant"
                                                    THEN E_ASSISTANT
                                                    ELSE E_INVALID_ROLE(RoleAt(i)))
        /\ fold_result = MlflowException(E_END_USER) =>
              /\ ~SameRoleAdjacent
              /\ \A i \in 1..NumMsgs : ~Offending(i)
              /\ ~LastIsUser

\* C25 witness: two neighbours with the same invalid role were rejected
\* with the consecutive-role error.
C25_Witness ==
    /\ Folded
    /\ NumMsgs = 2
    /\ RoleAt(1) = "tool"
    /\ RoleAt(2) = "tool"
    /\ fold_result = MlflowException(E_CONSECUTIVE)

\* a misplaced assistant in front of an unknown role decided the error
C25_FirstOffendingDecides ==
    /\ Folded
    /\ NumMsgs = 3
    /\ RoleAt(1) = "system"
    /\ RoleAt(2) = "assistant"
    /\ RoleAt(3) = "tool"
    /\ fold_result = MlflowException(E_ASSISTANT)

\* a sequence the loop went through whole was rejected at the end
C25_EndCheckLast ==
    /\ Folded
    /\ NumMsgs = 2
    /\ RoleAt(1) = "user"
    /\ RoleAt(2) = "assistant"
    /\ fold_result = MlflowException(E_END_USER)

----------------------------------------------------------------------------
(* C26: the empty sequence of messages.                                    *)

NoMessages == request["messages"].list = <<>>

\* C26: the folding rejects the empty sequence with "Messages must end with
\* 'user' role for final prompt.", so a chat request with no messages makes
\* no backend call and, when its fields let it reach the folding, ends in an
\* HTTP 422 error that carries this message.
C26_EmptyMessagesRejected ==
    /\ parse_chat_messages_to_prompt(<<>>)
          = MlflowException("Messages must end with 'user' role for final prompt.")
    /\ (op = "chat" /\ Invoked /\ NoMessages) =>
          /\ Finished
          /\ calls = 0
          /\ sent = NoCall
          /\ ChatReachedFolding =>
                result = [kind |-> "http_error", status |-> 422,
                          detail |-> "An invalid request structure was submitted. "
                                     \o "Messages must end with 'user' role for final prompt."]

\* C26 witness: a chat request with no messages and no forbidden field
\* ended in the 422 error with the end message, no call made.
C26_Witness ==
    /\ ChatReachedFolding
    /\ NoMessages
    /\ Finished
    /\ result.kind = "http_error"
    /\ result.status = 422
    /\ calls = 0

----------------------------------------------------------------------------
(* C27: system messages in the middle of a conversation.                   *)

\* the length of the prompt after the first n messages
PromptLenAfter(n) == Len(TurnBlocks(fold_messages, n))

\* a system message with content c followed by a user message with content
\* d, as the claim writes them: "<s>[INST] <<SYS>> c <</SYS>> d [/INST]"
SystemThenUser(c, d) ==
    <<"<", "s", ">", "[", "I", "N", "S", "T", "]", " ",
      "<", "<", "S", "Y", "S", ">", ">", " ">>
    \o c \o <<" ", "<", "<", "/", "S", "Y", "S", ">", ">", " ">>
    \o d \o <<" ", "[", "/", "I", "N", "S", "T", "]">>

\* C27: a system message is accepted at any position and any number of
\* times, as long as the sequence is otherwise well formed; each one opens a
\* new "<s>[INST] <<SYS>> ... <</SYS>>" block appended to the prompt built so
\* far, and the user message after it is appended with no marker of its own.
C27_SystemMessageAnywhere ==
    (Folded /\ WellFormedTurns(fold_messages)) =>
        /\ fold_result.kind = "prompt"
        /\ \A i \in 1..NumMsgs :
              RoleAt(i) = "system" =>
                  /\ i < NumMsgs
                  /\ Len(fold_result.prompt) >= PromptLenAfter(i + 1)
                  /\ SubSeq(fold_result.prompt, 1, PromptLenAfter(i - 1))
                        = TurnBlocks(fold_messages, i - 1)
                  /\ SubSeq(fold_result.prompt,
                            PromptLenAfter(i - 1) + 1, PromptLenAfter(i + 1))
                        = SystemThenUser(fold_messages[i].content,
                                         fold_messages[i + 1].content)

\* C27 witness: [user, assistant, system, user] was folded into a prompt.
C27_Witness ==
    /\ Accepted
    /\ NumMsgs = 4
    /\ RoleAt(1) = "user"
    /\ RoleAt(2) = "assistant"
    /\ RoleAt(3) = "system"
    /\ RoleAt(4) = "user"

\* [system, user, system, user] was folded into a prompt
C27_TwoSystemMessages ==
    /\ Accepted
    /\ NumMsgs = 4
    /\ RoleAt(1) = "system"
    /\ RoleAt(2) = "user"
    /\ RoleAt(3) = "system"
    /\ RoleAt(4) = "user"

----------------------------------------------------------------------------
(* C28: the markers of a prompt balance.                                   *)

\* how many times sub occurs in s
Occurrences(s, sub) ==
    Cardinality({i \in 1..(Len(s) - Len(sub) + 1) : SubSeq(s, i, i + Len(sub) - 1) = sub})

MarkerStrings ==
    { <<"<", "s", ">", "[", "I", "N", "S", "T", "]">>,
      <<"[", "/", "I", "N", "S", "T", "]">>,
      <<"<", "<", "S", "Y", "S", ">", ">">>,
      <<"<", "<", "/", "S", "Y", "S", ">", ">">>,
      <<"<", "/", "s", ">">> }

\* no content of the folded sequence holds a marker
MarkerFreeContents ==
    \A i \in 1..NumMsgs :
        \A mk \in MarkerStrings : Occurrences(fold_messages[i].content, mk) = 0

\* the number of messages of the folded sequence with the role r
CountRole(r) == Cardinality({i \in 1..NumMsgs : RoleAt(i) = r})

\* C28: in the prompt of an accepted sequence whose contents hold no
\* marker, "<s>[INST]" and "[/INST]" each occur once per user message,
\* "<<SYS>>" and "<</SYS>>" once per system message, "</s>" once per
\* assistant message, and the prompt starts with "<s>[INST]" and ends with
\* "[/INST]".
C28_MarkersBalance ==
    (Accepted /\ MarkerFreeContents) =>
        LET p == fold_result.prompt
        IN  /\ Occurrences(p, <<"<", "s", ">", "[", "I", "N", "S", "T", "]">>)
                  = CountRole("user")
            /\ Occurrences(p, <<"[", "/", "I", "N", "S", "T", "]">>) = CountRole("user")
            /\ Occurrences(p, <<"<", "<", "S", "Y", "S", ">", ">">>) = CountRole("system")
            /\ Occurrences(p, <<"<", "<", "/", "S", "Y", "S", ">", ">">>)
                  = CountRole("system")
            /\ Occurrences(p, <<"<", "/", "s", ">">>) = CountRole("assistant")
            /\ Len(p) >= 9
            /\ SubSeq(p, 1, 9) = <<"<", "s", ">", "[", "I", "N", "S", "T", "]">>
            /\ SubSeq(p, Len(p) - 6, Len(p)) = <<"[", "/", "I", "N", "S", "T", "]">>

\* C28 witness: [system, user, assistant, user] with marker-free contents
\* gave a prompt with two openers, two closers, one system pair and one
\* "</s>".
C28_Witness ==
    /\ Accepted
    /\ MarkerFreeContents
    /\ NumMsgs = 4
    /\ CountRole("system") = 1
    /\ CountRole("user") = 2
    /\ CountRole("assistant") = 1
    /\ Occurrences(fold_result.prompt, <<"<", "s", ">", "[", "I", "N", "S", "T", "]">>) = 2
    /\ Occurrences(fold_result.prompt, <<"<", "/", "s", ">">>) = 1

----------------------------------------------------------------------------
(* C29: the other fields of an embeddings request.                         *)

\* C29: in embeddings every field of the request other than text that has
\* a value, and is neither "model" nor "inputs", goes out as a top-level
\* key of the body next to inputs, with its value; so the body is exactly
\* {"inputs": [...]} only when the request carries no such field.
C29_ExtraFieldsForwardedAtTopLevel ==
    (op = "embeddings" /\ ReachedBackend) =>
        LET extra == {k \in DOMAIN request \ {"text", "model", "inputs"} : CarriesSet(k)}
        IN  /\ DOMAIN sent.payload = {"inputs"} \cup extra
            /\ \A k \in extra : sent.payload[k] = request[k]
            /\ sent.payload = [inputs |-> TextAsList] <=> extra = {}

\* C29 witness: a request with the text "cats" and a user field went out as
\* {"inputs": ["cats"], "user": "u"}.
C29_Witness ==
    /\ op = "embeddings"
    /\ ReachedBackend
    /\ request = [text |-> [str |-> <<"c", "a", "t", "s">>], user |-> [str |-> <<"u">>]]
    /\ DOMAIN sent.payload = {"inputs", "user"}
    /\ sent.payload["inputs"] = [list |-> << <<"c", "a", "t", "s">> >>]
    /\ sent.payload["user"] = [str |-> <<"u">>]

----------------------------------------------------------------------------
(* C30: the request object of the caller.                                  *)

\* the field of the request that holds what the operation works on
MainField ==
    CASE op = "chat" -> "messages"
      [] op = "completions" -> "prompt"
      [] op = "embeddings" -> "text"
      [] OTHER -> "none"

\* C30: no operation changes the request object it is given: while chat,
\* completions or embeddings runs and after it returned or failed, the
\* object of the caller has the fields it was handed in with, each with its
\* value: messages, prompt or text still there, max_tokens still under its
\* normalized name, a field without a value still a field.
C30_RequestObjectUnchanged ==
    Invoked =>
        /\ DOMAIN caller_payload = DOMAIN request
        /\ \A k \in DOMAIN request : caller_payload[k] = request[k]
        /\ MainField \in DOMAIN request => MainField \in DOMAIN caller_payload
        /\ ("max_new_tokens" \in DOMAIN caller_payload) <=> ("max_new_tokens" \in DOMAIN request)

\* C30 witness: a chat request with max_tokens was answered, its body had
\* max_new_tokens in its parameters and no messages, and the object of the
\* caller still has messages, max_tokens and its unset stop.
C30_Witness ==
    /\ op = "chat"
    /\ Answered
    /\ CarriesSet("max_tokens")
    /\ "max_new_tokens" \in DOMAIN SentParameters
    /\ "messages" \notin DOMAIN SentParameters
    /\ DOMAIN caller_payload = {"messages", "temperature", "max_tokens", "stop"}
    /\ caller_payload["messages"] = request["messages"]
    /\ caller_payload["max_tokens"] = Num(10)
    /\ caller_payload["stop"] = None

\* an embeddings request failed at the backend and its text is still there
C30_UnchangedAfterFailure ==
    /\ op = "embeddings"
    /\ Finished
    /\ result.kind = "backend_error"
    /\ "text" \in DOMAIN caller_payload
    /\ caller_payload = request

====
